---- MODULE Spec2Model ----
(***************************************************************************)
(* Model of the unicast receiver core.                                     *)
(*                                                                         *)
(* Part 1: the MPV receiver driver (MpvReceiver.ts) on top of the session  *)
(* registry (MediaSessionsManager) and its transport (MpvConnection).     *)
(* Every handler of the driver is one action; the steps the handler takes  *)
(* (registry reads, releases, transport commands, pointer writes and       *)
(* notifications) are recorded, in order, in the trace of the call.        *)
(***************************************************************************)
EXTENDS Integers, Sequences, FiniteSets, TLC

(***************************************************************************)
(* Bounds and identifiers                                                  *)
(***************************************************************************)
\* Number of sessions the registry holds at start.
MaxSessions == 3

\* The null session pointer (sessions.current = null).
NoSession == 0

\* Session ids created by the session store before the model starts.
SessionIds == 1 .. MaxSessions

\* An id the registry never knew.
UnknownId == MaxSessions + 1

\* Ids a caller may pass to play().
PlayIds == SessionIds \cup {UnknownId}

\* Session 1 carries only a subtitles stream; every other session has a
\* video stream (streams.find( stream => stream.type === Video )).
HasVideo(id) == id \in SessionIds /\ id # 1

(***************************************************************************)
(* State                                                                   *)
(***************************************************************************)
VARIABLES
    current,    \* this.sessions.current
    registry,   \* ids the registry resolves (bound sessions)
    device,     \* what the player process reports: [loaded, pause]
    last,       \* summary of the last driver call
    prev        \* op/arg/outcome of the call before it

VARIABLES
    conn,       \* the KodiConnection object
    sync,       \* who is inside open() and inside connect(), 0 for nobody
    proc        \* the callers of the connection

\* The other components of the repository, each with a specification of its
\* own.
VARIABLES
    api,        \* KodiApi: the latest query() with its reply and its outcome
    legacy,     \* the legacy Receiver: _currentItem and the setters in progress
    listing,    \* BaseTableController: the list() in progress or finished
    controller  \* a controller class: its route declarations and its router

cvars == <<conn, sync, proc>>

dvars == <<current, registry, device, last, prev>>

ovars == <<api, legacy, listing, controller>>

vars ==
    <<current, registry, device, last, prev, conn, sync, proc,
      api, legacy, listing, controller>>

(***************************************************************************)
(* Values                                                                  *)
(***************************************************************************)
Step(k, n, a) == [k |-> k, n |-> n, a |-> a]

\* Volume levels are counted in halves: 0, 0.5 and 1.
Levels == {0, 1, 2}

\* Math.round, on halves: 0.5 goes to 1.
Round(n) == 2 * ((n + 1) \div 2)

\* Playback positions, in seconds.
Positions == {0, 30}

Volume(level, muted) == [level |-> level, muted |-> muted]

NoStatus ==
    [state |-> "NONE", session |-> NoSession, record |-> NoSession,
     current |-> 0, volume |-> Volume(0, FALSE)]

\* The literal returned by status() when the device has nothing loaded:
\* time.current 0 and volume { level: 1, muted: false }.
StoppedSnapshot ==
    [state |-> "STOPPED", session |-> NoSession, record |-> NoSession,
     current |-> 0, volume |-> Volume(2, FALSE)]

\* The player as it starts: nothing loaded, full volume, not muted.
DeviceIdle ==
    [loaded |-> FALSE, pause |-> FALSE, volume |-> 2, mute |-> FALSE,
     position |-> 0]

\* The playback states of a player that nobody changed the sound of.
DeviceStates == { DeviceIdle,
                  [DeviceIdle EXCEPT !.loaded = TRUE],
                  [DeviceIdle EXCEPT !.loaded = TRUE, !.pause = TRUE] }

\* The input of a call is the set of its I/O points that fail, chosen by the
\* environment:
\*   "command"       the handler's main transport command
\*   "notify"        a listener of the notification throws
\*   "showProgress"  connection.showProgress()
\*   "status"        connection.status()
Ok(in, point) == point \notin in

\* A handler stops at the first failure it does not catch, so one failing
\* point per call covers every outcome; turnoff() catches the failure of its
\* command and goes on to the status read.
FailsOnce(points) == {{}} \cup { {p} : p \in points }

PlayInputs == FailsOnce({"command", "notify", "status"})

PauseInputs == FailsOnce({"command", "notify", "showProgress", "status"})

StopInputs == FailsOnce({"command", "notify", "status"})

TurnoffInputs == SUBSET {"command", "status"}

StatusInputs == FailsOnce({"status"})

Ctx(cur, reg, dev) == [cur |-> cur, reg |-> reg, dev |-> dev, tr |-> <<>>]

Return(c, st) ==
    [cur |-> c.cur, reg |-> c.reg, dev |-> c.dev, tr |-> c.tr,
     outcome |-> "ok", err |-> "none", status |-> st]

Raise(c, e) ==
    [cur |-> c.cur, reg |-> c.reg, dev |-> c.dev, tr |-> c.tr,
     outcome |-> "error", err |-> e, status |-> NoStatus]

\* Errors a call can end with.
SessionNotFoundError == "SessionNotFoundError"

\* new Error( `Trying to play media with no video stream ...` )
NoVideoStreamError == "Trying to play media with no video stream is not currently supported."

TransportError == "TransportError"

NotifyError == "NotifyError"

\* throw new InvalidArgumentError()
InvalidArgumentError == "InvalidArgumentError"

\* What JavaScript raises when a property that is no function is called.
TypeError == "TypeError"

(***************************************************************************)
(* Session registry (MediaSessionsManager)                                 *)
(***************************************************************************)
\* get( id ) resolves exactly the bound ids.
Resolves(c, id) == id \in c.reg

SessionsGet(c, id) == [c EXCEPT !.tr = Append(@, Step("get", "sessions", id))]

\* Variant: releasing an id that is not bound binds it.
SessionsRelease_toggles(c, id) ==
    [c EXCEPT !.reg = IF id \in @ THEN @ \ {id} ELSE @ \cup {id},
              !.tr = Append(@, Step("release", "sessions", id))]

\* release( id ) removes the binding; a no-op on an unbound id.
SessionsRelease(c, id) ==
    [c EXCEPT !.reg = @ \ {id}, !.tr = Append(@, Step("release", "sessions", id))]

SetCurrent(c, id) ==
    [c EXCEPT !.cur = id, !.tr = Append(@, Step("set", "current", id))]

(***************************************************************************)
(* Transport (MpvConnection) and the player behind it                      *)
(***************************************************************************)
\* The player after a command.  play( videoUrl, subtitlesUrl ) loads the file
\* from its beginning; the sound settings outlive the file.
Unloaded(dev) == [dev EXCEPT !.loaded = FALSE, !.pause = FALSE, !.position = 0]

DeviceAfter(name, arg, dev) ==
    CASE name = "play"   -> [dev EXCEPT !.loaded = TRUE, !.pause = FALSE,
                                        !.position = 0]
      [] name = "stop"   -> Unloaded(dev)
      [] name = "quit"   -> Unloaded(dev)
      [] name = "pause"  -> [dev EXCEPT !.pause = dev.loaded]
      [] name = "resume" -> [dev EXCEPT !.pause = FALSE]
      [] name = "volume" -> [dev EXCEPT !.volume = arg]
      [] name = "mute"   -> [dev EXCEPT !.mute = TRUE]
      [] name = "unmute" -> [dev EXCEPT !.mute = FALSE]
      [] OTHER           -> dev

\* One command sent over the connection; it takes effect only when it
\* succeeds.
Command(c, name, arg, ok) ==
    [c EXCEPT !.tr = Append(@, Step("transport", name, arg)),
              !.dev = IF ok THEN DeviceAfter(name, arg, @) ELSE @]

Emit(c, name, id) == [c EXCEPT !.tr = Append(@, Step("emit", name, id))]

(***************************************************************************)
(* MpvReceiver                                                             *)
(***************************************************************************)
\* Variant: status() answers from the pointer it tracks and asks the player
\* only while a session is current.
status_trustsPointer(c, in) ==
    IF c.cur = NoSession THEN Return(c, StoppedSnapshot)
    ELSE LET c1 == Command(c, "status", 0, Ok(in, "status"))
             c2 == SessionsGet(c1, c1.cur)
         IN  IF ~Ok(in, "status") THEN Raise(c1, TransportError)
             ELSE IF ~c1.dev.loaded THEN Return(c1, StoppedSnapshot)
             ELSE IF ~Resolves(c1, c1.cur) THEN Raise(c2, SessionNotFoundError)
             ELSE Return(c2, [state   |-> IF c2.dev.pause THEN "PAUSED" ELSE "PLAYING",
                              session |-> c1.cur,
                              record  |-> c1.cur,
                              current |-> c2.dev.position,
                              volume  |-> Volume(Round(c2.dev.volume),
                                                 c2.dev.mute)])

status(c, in) ==
    LET c1 == Command(c, "status", 0, Ok(in, "status"))
    IN  IF ~Ok(in, "status") THEN Raise(c1, TransportError)
        ELSE IF ~c1.dev.loaded THEN Return(c1, StoppedSnapshot)
        ELSE LET session == c1.cur
                 c2 == SessionsGet(c1, session)
             IN  IF ~Resolves(c1, session) THEN Raise(c2, SessionNotFoundError)
                 ELSE Return(c2, [state   |-> IF c2.dev.pause THEN "PAUSED" ELSE "PLAYING",
                                  session |-> session,
                                  record  |-> session,
                                  current |-> c2.dev.position,
                                  volume  |-> Volume(Round(c2.dev.volume),
                                                     c2.dev.mute)])

\* Variant: the catch block releases the session but leaves the pointer.
playCatch_keepsPointer(c, id, err) == Raise(SessionsRelease(c, id), err)

\* The catch block of play().
playCatch(c, id, err) ==
    LET c1 == SessionsRelease(c, id)
        c2 == IF c1.cur = id THEN SetCurrent(c1, NoSession) ELSE c1
    IN  Raise(c2, err)

\* Variant: the displaced session is not released.
playReleasePrevious_skip(c, id) == c

\* Variant: whatever session is current is released, the replayed one too.
playReleasePrevious_always(c, id) ==
    IF c.cur # NoSession THEN SessionsRelease(c, c.cur) ELSE c

\* if ( current != null && current != id ) release( current )
playReleasePrevious(c, id) ==
    IF c.cur # NoSession /\ c.cur # id THEN SessionsRelease(c, c.cur) ELSE c

\* Variant: the registry lookup sits inside the try, so the catch block runs.
playNotFound_insideTry(c, id) == playCatch(c, id, SessionNotFoundError)

\* await this.sessions.get( id ) rejects: it is awaited outside the try.
playNotFound(c, id) == Raise(c, SessionNotFoundError)

\* Variant: the video check comes after the release of the displaced session.
playNoVideo_afterRelease(c, id) ==
    playCatch(playReleasePrevious(c, id), id, NoVideoStreamError)

\* Variant: the video check comes after the transport play command.
playNoVideo_afterCommand(c, id) ==
    playCatch(Command(c, "play", id, TRUE), id, NoVideoStreamError)

\* if ( !video ) throw: the first statement of the try.
playNoVideo(c, id) == playCatch(c, id, NoVideoStreamError)

\* Variant: the displaced session is released only after the new one is
\* playing and current.
play_releasesAfterBinding(c, id, in) ==
    LET c0 == SessionsGet(c, id)
    IN  IF ~Resolves(c, id) THEN playNotFound(c0, id)
        ELSE IF ~HasVideo(id) THEN playNoVideo(c0, id)
        ELSE LET c2 == Command(c0, "play", id, Ok(in, "command"))
             IN  IF ~Ok(in, "command") THEN playCatch(c2, id, TransportError)
                 ELSE LET c3 == SetCurrent(c2, id)
                          c1 == playReleasePrevious([c3 EXCEPT !.cur = c.cur], id)
                          c4 == Emit([c1 EXCEPT !.cur = id], "play", id)
                      IN  IF ~Ok(in, "notify") THEN playCatch(c4, id, NotifyError)
                          ELSE status(c4, in)

play(c, id, in) ==
    LET c0 == SessionsGet(c, id)
    IN  IF ~Resolves(c, id) THEN playNotFound(c0, id)
        ELSE IF ~HasVideo(id) THEN playNoVideo(c0, id)
        ELSE LET c1 == playReleasePrevious(c0, id)
                 c2 == Command(c1, "play", id, Ok(in, "command"))
             IN  IF ~Ok(in, "command") THEN playCatch(c2, id, TransportError)
                 ELSE LET c3 == SetCurrent(c2, id)
                          c4 == Emit(c3, "play", id)
                      IN  IF ~Ok(in, "notify") THEN playCatch(c4, id, NotifyError)
                          ELSE status(c4, in)

\* pause() and resume() share their shape.
pauseResume(c, name, in) ==
    LET c1 == Command(c, name, 0, Ok(in, "command"))
    IN  IF ~Ok(in, "command") THEN Raise(c1, TransportError)
        ELSE LET c2 == Emit(c1, name, c1.cur)
             IN  IF ~Ok(in, "notify") THEN Raise(c2, NotifyError)
                 ELSE LET c3 == Command(c2, "showProgress", 0, Ok(in, "showProgress"))
                      IN  IF ~Ok(in, "showProgress") THEN Raise(c3, TransportError)
                          ELSE status(c3, in)

\* Variant: pause() refuses to run without a current session.
pause_needsSession(c, in) ==
    IF c.cur = NoSession THEN Raise(c, SessionNotFoundError)
    ELSE pauseResume(c, "pause", in)

pause(c, in) == pauseResume(c, "pause", in)

resume(c, in) == pauseResume(c, "resume", in)

\* Variant: stop() forgets to clear the pointer.
stopClearCurrent_skip(c) == c

\* this.sessions.current = null
stopClearCurrent(c) == SetCurrent(c, NoSession)

\* Variant: stop() notifies its listeners before it touches the registry.
stop_notifiesFirst(c, in) ==
    LET c1 == Command(c, "stop", 0, Ok(in, "command"))
    IN  IF ~Ok(in, "command") THEN Raise(c1, TransportError)
        ELSE LET c2 == Emit(c1, "stop", c1.cur)
             IN  IF ~Ok(in, "notify") THEN Raise(c2, NotifyError)
                 ELSE status(stopClearCurrent(SessionsRelease(c2, c2.cur)), in)

\* Variant: stop() releases the session before it sends the stop command.
stop_releasesFirst(c, in) ==
    LET c1 == SessionsRelease(c, c.cur)
        c2 == Command(c1, "stop", 0, Ok(in, "command"))
    IN  IF ~Ok(in, "command") THEN Raise(c2, TransportError)
        ELSE LET id == c2.cur
                 c3 == stopClearCurrent(c2)
                 c4 == Emit(c3, "stop", id)
             IN  IF ~Ok(in, "notify") THEN Raise(c4, NotifyError)
                 ELSE status(c4, in)

stop(c, in) ==
    LET c1 == Command(c, "stop", 0, Ok(in, "command"))
    IN  IF ~Ok(in, "command") THEN Raise(c1, TransportError)
        ELSE LET c2 == SessionsRelease(c1, c1.cur)
                 id == c2.cur
                 c3 == stopClearCurrent(c2)
                 c4 == Emit(c3, "stop", id)
             IN  IF ~Ok(in, "notify") THEN Raise(c4, NotifyError)
                 ELSE status(c4, in)

turnoff(c, in) ==
    LET c1 == Command(c, "quit", 0, Ok(in, "command"))
        c2 == IF c1.cur # NoSession THEN SessionsRelease(c1, c1.cur) ELSE c1
    IN  status(c2, in)

\* mute() and unmute() share their shape.
muteUnmute(c, name, in) ==
    LET c1 == Command(c, name, 0, Ok(in, "command"))
    IN  IF ~Ok(in, "command") THEN Raise(c1, TransportError)
        ELSE status(c1, in)

mute(c, in) == muteUnmute(c, "mute", in)

unmute(c, in) == muteUnmute(c, "unmute", in)

setVolume(c, level, in) ==
    LET c1 == Command(c, "volume", level, Ok(in, "command"))
    IN  IF ~Ok(in, "command") THEN Raise(c1, TransportError)
        ELSE status(c1, in)

\* The operations of the receiver contract that callCommand() is followed
\* into.
ContractOps == {"play", "pause", "resume", "stop", "status"}

\* Other names the receiver object answers to `name in this`: a method that is
\* no contract operation, and a data property.
OtherMethods == {"toJSON"}

DataProperties == {"address"}

\* Names a caller may pass to callCommand().
CommandNames == ContractOps \cup OtherMethods \cup DataProperties \cup {"fly"}

\* commandName in this
IsMember(name) == name \in ContractOps \cup OtherMethods \cup DataProperties

\* this[ commandName ]( ...args )
Invoke(c, name, arg, in) ==
    LET c1 == [c EXCEPT !.tr = Append(@, Step("invoke", name, arg))]
    IN  CASE name = "play"   -> play(c1, arg, in)
          [] name = "pause"  -> pause(c1, in)
          [] name = "resume" -> resume(c1, in)
          [] name = "stop"   -> stop(c1, in)
          [] name = "status" -> status(c1, in)
          [] name \in OtherMethods -> Return(c1, NoStatus)
          [] OTHER -> Raise(c, TypeError)

callCommand(c, name, arg, in) ==
    IF IsMember(name) THEN Invoke(c, name, arg, in)
    ELSE Raise(c, InvalidArgumentError)

(***************************************************************************)
(* Part 2: the JSON-RPC connection (KodiConnection) and the callers that   *)
(* share it.  A call is followed from one await to the next: what runs     *)
(* between two awaits is one step.                                         *)
(***************************************************************************)
\* Callers that may have an operation in progress on the one connection.
MaxCallers == 2

Callers == 1 .. MaxCallers

\* The most recent attempts (failed opens and answered requests) of a call
\* that are kept for reading.
Window == 2

\* this.client = null
NoClient == "none"

\* this.fallback = null
NoAddress == "none"

\* A connection as its constructor leaves it.
NewConnection(fb) ==
    [usingFallback |-> FALSE, failedAttemptsAtConnecting |-> 0,
     client |-> NoClient, fallback |-> fb, opens |-> 0]

connected(k) == k.client # NoClient

\* What the device, or the network on the way to it, answers.
ConnectivityCodes == {"ECONNREFUSED", "ETIMEDOUT"}

NotReady == "socket not ready"

DeviceError == "Invalid params."

RequestOutcomes == {"ok"} \cup ConnectivityCodes \cup {NotReady, DeviceError}

OpenOutcomes == {"ok"} \cup ConnectivityCodes \cup {DeviceError}

\* err.code == 'ECONNREFUSED' || err.code == 'ETIMEDOUT'
IsConnectivity(err) == err \in ConnectivityCodes

\* err.message.includes( 'socket not ready' )
IsNotReady_anyError(err) == TRUE

IsNotReady(err) == err = NotReady

\* useFallback( err ): the connection after the call, and what it returned.
useFallback_keepsAddress(k, err) ==
    IF IsConnectivity(err)
    THEN LET n == k.failedAttemptsAtConnecting + 1
         IN  [k |-> [k EXCEPT !.failedAttemptsAtConnecting = n],
              use |-> ~(n > 1 \/ k.fallback = NoAddress)]
    ELSE [k |-> k, use |-> FALSE]

\* Variant: the policy toggles on every connectivity failure, repeated or
\* not.
useFallback_ignoresCounter(k, err) ==
    IF IsConnectivity(err)
    THEN LET n == k.failedAttemptsAtConnecting + 1
         IN  IF k.fallback = NoAddress
             THEN [k |-> [k EXCEPT !.failedAttemptsAtConnecting = n],
                   use |-> FALSE]
             ELSE [k |-> [k EXCEPT !.failedAttemptsAtConnecting = n,
                                   !.usingFallback = ~@],
                   use |-> TRUE]
    ELSE [k |-> k, use |-> FALSE]

useFallback(k, err) ==
    IF IsConnectivity(err)
    THEN LET n == k.failedAttemptsAtConnecting + 1
         IN  IF n > 1 \/ k.fallback = NoAddress
             THEN [k |-> [k EXCEPT !.failedAttemptsAtConnecting = n],
                   use |-> FALSE]
             ELSE [k |-> [k EXCEPT !.failedAttemptsAtConnecting = n,
                                   !.usingFallback = ~@],
                   use |-> TRUE]
    ELSE [k |-> k, use |-> FALSE]

\* opens counts the clients call() created since the connection was last
\* closed.
close(k) == [k EXCEPT !.client = NoClient, !.opens = 0]

\* Variant: open() starts the count of failed attempts afresh.
open_resetsCounter(k, op) ==
    [k EXCEPT !.client = IF k.usingFallback THEN k.fallback ELSE "primary",
              !.opens = IF op = "call" THEN @ + 1 ELSE @,
              !.failedAttemptsAtConnecting = 0]

\* The body of open(): a client for the address in use replaces this.client.
open(k, op) ==
    [k EXCEPT !.client = IF k.usingFallback THEN k.fallback ELSE "primary",
              !.opens = IF op = "call" THEN @ + 1 ELSE @]

\* @Synchronized(): the method body is entered only while no other
\* invocation of it on the same object is in progress.
Synchronized_off(holder) == TRUE

Synchronized(holder) == holder = 0

\* What a caller waits for: the address its open() or request went to and,
\* once open() has run, how it ended.
Pending(address, out) == [address |-> address, out |-> out]

NoAnswer == Pending(NoAddress, "none")

\* A caller: where it stands, the operation it is in, what it is waiting
\* for, how the operation ended and, for a caller that is watched, the
\* latest attempts of its call.
Idle ==
    [pc |-> "idle", op |-> "none", log |-> <<>>, pend |-> NoAnswer,
     res |-> "none", watch |-> FALSE, did |-> <<>>]

\* did: the disconnect() and connect() an operation of the receiver went
\* through, each with whether it succeeded.
Did(what, ok) == [what |-> what, ok |-> ok]

Watched == [Idle EXCEPT !.watch = TRUE]

Starting(me, op, pc) == [Idle EXCEPT !.op = op, !.pc = pc, !.watch = me.watch]

Attempt(at, address, out) == [at |-> at, address |-> address, out |-> out]

World(k, me) == [k |-> k, me |-> me]

\* Variant: call() leaves the counter as the fallback policy left it.
Resetting_skip(w) == w

Resetting(w) == [w EXCEPT !.k.failedAttemptsAtConnecting = 0]

Closing(w) == [w EXCEPT !.k = close(@)]

Logging(w, a) ==
    IF ~w.me.watch THEN w
    ELSE [w EXCEPT !.me.log = IF Len(@) < Window THEN Append(@, a)
                              ELSE Append(Tail(@), a)]

Done(w, res) ==
    [w EXCEPT !.me.pc = "done", !.me.pend = NoAnswer, !.me.res = res]

\* disconnect(): this.connection.close() closes the connection, or throws and
\* leaves it as it is.
disconnect(w, ok) ==
    [w EXCEPT !.k = IF ok THEN close(@) ELSE @,
              !.me.did = Append(@, Did("disconnect", ok))]

\* Variant: reconnect() lets the failure of disconnect() through.
reconnectFinally_rethrows(me) ==
    IF me.did[1].ok THEN [me EXCEPT !.pc = "wantConnect"]
    ELSE [me EXCEPT !.pc = "done", !.res = "error"]

\* reconnect(): finally { return this.connect() }
reconnectFinally(me) == [me EXCEPT !.pc = "wantConnect"]

\* call(): the test of the while loop, up to the next await.  On an open
\* connection the request goes out on the client in place; on a closed one
\* the caller waits to enter open().
callEnter(w) ==
    IF connected(w.k)
    THEN [w EXCEPT !.me.pc = "request", !.me.pend = Pending(w.k.client, "none")]
    ELSE [w EXCEPT !.me.pc = "wantOpen", !.me.pend = NoAnswer]

\* Variant: after a successful open() the request goes out at once, without
\* testing the connection again.
callOpened_sendsAtOnce(w) ==
    IF w.me.pend.out = "ok"
    THEN [Resetting(w) EXCEPT !.me.pc = "request",
                              !.me.pend = Pending(w.k.client, "none")]
    ELSE LET w1 == Logging(w, Attempt("open", w.me.pend.address, w.me.pend.out))
             u  == useFallback(w1.k, w.me.pend.out)
             w2 == [w1 EXCEPT !.k = u.k]
         IN  IF u.use THEN callEnter(Closing(w2))
             ELSE Done(Resetting(w2), "error")

\* call(): after `await this.open()`, with what open() ended in.
callOpened(w) ==
    IF w.me.pend.out = "ok"
    THEN callEnter(Resetting(w))
    ELSE LET w1 == Logging(w, Attempt("open", w.me.pend.address, w.me.pend.out))
             u  == useFallback(w1.k, w.me.pend.out)
             w2 == [w1 EXCEPT !.k = u.k]
         IN  IF u.use THEN callEnter(Closing(w2))
             ELSE Done(Resetting(w2), "error")

\* call(): after `await this.request( command, args )`.
callAnswered(w, out) ==
    LET w1 == Logging(w, Attempt("request", w.me.pend.address, out))
    IN  IF out = "ok"
        THEN Done(Resetting(w1), "ok")
        ELSE LET u  == useFallback(w1.k, out)
                 w2 == [w1 EXCEPT !.k = u.k]
             IN  IF u.use THEN callEnter(Closing(w2))
                 ELSE IF IsNotReady(out) THEN callEnter(Closing(w2))
                 ELSE Done(Resetting(w2), "error")

Unlocked == [open |-> 0, connect |-> 0]

(***************************************************************************)
(* KodiApi.query                                                           *)
(***************************************************************************)
\* The largest total a reply reports in its limits, and the longest list it
\* carries.
MaxTotal == 2

MaxRecords == 2

NoKind == "null"

Kinds == {NoKind, "movie"}

\* options: { returnResponse, forceArray }
QueryOptions == [returnResponse : BOOLEAN, forceArray : BOOLEAN]

NoLimits == [start |-> -1, total |-> -1]

Limits == {NoLimits} \cup [start : 0..MaxTotal, total : 0..MaxTotal]

\* A JavaScript value as query() hands it on: what it is, and the records
\* in it.
Value(shape, items) == [shape |-> shape, items |-> items]

Undefined == Value("undefined", <<>>)

EmptyArray == Value("array", <<>>)

Lists == { Value("array", [i \in 1..n |-> i]) : n \in 0..MaxRecords }

Details == {Value("record", <<1>>)}

\* The body of the reply: an error object or not, result.limits or not,
\* result[ kind + 's' ] or not, result[ kind + 'details' ] or not.
Replies ==
    [error : BOOLEAN, limits : Limits,
     plural : {Undefined} \cup Lists, details : {Undefined} \cup Details]

\* a || b: an array, even an empty one, is truthy.
OrElse(a, b) == IF a # Undefined THEN a ELSE b

Answer(outcome, value) == [outcome |-> outcome, value |-> value]

\* The response object itself, not parsed.
RawResponse == Value("response", <<>>)

\* Variant: the limits of the reply are not looked at.
query_ignoresLimits(kind, options, reply) ==
    IF kind = NoKind \/ options.returnResponse THEN Answer("ok", RawResponse)
    ELSE IF reply.error THEN Answer("error", Undefined)
    ELSE LET result == OrElse(reply.plural, reply.details)
         IN  IF result.shape # "array" /\ options.forceArray
             THEN Answer("ok", Value("array", result.items))
             ELSE Answer("ok", result)

query(kind, options, reply) ==
    IF kind = NoKind \/ options.returnResponse THEN Answer("ok", RawResponse)
    ELSE IF reply.error THEN Answer("error", Undefined)
    ELSE IF /\ reply.limits # NoLimits
            /\ reply.limits.start >= reply.limits.total
         THEN Answer("ok", EmptyArray)
    ELSE LET result == OrElse(reply.plural, reply.details)
         IN  IF result.shape # "array" /\ options.forceArray
             THEN Answer("ok", Value("array", result.items))
             ELSE Answer("ok", result)

\* No query was made yet.
NoQuery ==
    [kind |-> NoKind, options |-> [returnResponse |-> FALSE, forceArray |-> FALSE],
     reply |-> [error |-> FALSE, limits |-> NoLimits, plural |-> Undefined,
                details |-> Undefined],
     answer |-> Answer("none", Undefined)]

(***************************************************************************)
(* The legacy Receiver                                                     *)
(***************************************************************************)
\* this.current = null
NoItem == 0

MaxItems == 4

\* The calls made back-to-back, before the stops they wait for are over.
MaxBackToBack == 2

Items == 1..MaxItems

\* item.status: the first item was never given one.
HasStatus(item) == item > 1

\* set current( value ): the generator runs up to its yield at once.  With a
\* current item that has a status it waits for status.stop( current );
\* otherwise it assigns.
setCurrent(r, value) ==
    LET asked == IF r.stopping = <<>> THEN <<value>>
                 ELSE Append(r.requested, value)
    IN  IF r.currentItem # NoItem /\ HasStatus(r.currentItem)
        THEN [r EXCEPT !.stopping = Append(@, value), !.requested = asked]
        ELSE [r EXCEPT !.currentItem = value, !.requested = asked]

Without(seq, i) == [j \in 1..(Len(seq) - 1) |-> IF j < i THEN seq[j] ELSE seq[j + 1]]

\* The stop a setter waits for is done: this._currentItem = value.
stopDone(r, i) ==
    [r EXCEPT !.currentItem = r.stopping[i], !.stopping = Without(@, i)]

(***************************************************************************)
(* BaseTableController.list                                                *)
(***************************************************************************)
MaxTable == 4

MaxSkip == 2

MaxTake == 3

\* The table as the database query orders it: for each position, whether
\* the record there passes the embedded custom query (every record passes
\* when the request has none).
Tables == UNION { [1..n -> BOOLEAN] : n \in 0..MaxTable }

\* take when the request has none: larger than any number of records.
Infinity == MaxTable + 1

Takes == 0..MaxTake \cup {Infinity}

Min(a, b) == IF a < b THEN a ELSE b

\* A record of the result: where it stands in the table, counted from 1, and
\* the $index it was marked with.
Record(at, index) == [at |-> at, index |-> index]

\* The locals of list() before the loop.
listStart(table, skip, take) ==
    [table |-> table, skip |-> skip, take |-> take, nextBatchSkip |-> skip,
     result |-> <<>>, batches |-> 0, pc |-> "loop"]

\* getPagination: skip( n ) unless n is 0, limit( n ) unless n is 0 or
\* Infinity; then each record is marked with nextBatchSkip + its index in
\* the batch.
getPagination(table, skip, take) ==
    LET from == Min(skip, Len(table))
        to   == IF take # 0 /\ take # Infinity
                THEN Min(from + take, Len(table)) ELSE Len(table)
    IN  [i \in 1..(to - from) |-> Record(from + i, skip + (i - 1))]

\* runCustomQuery: the records of the batch that pass.
runCustomQuery(table, batch) == SelectSeq(batch, LAMBDA r : table[r.at])

\* Variant: the next batch starts after as many records as passed the
\* custom query.
listBatch_countsPassing(l) ==
    LET partialList == getPagination(l.table, l.nextBatchSkip, l.take)
        hasNoMore   == Len(partialList) < l.take
        passing     == runCustomQuery(l.table, partialList)
        kept        == IF Len(passing) + Len(l.result) > l.take
                       THEN SubSeq(passing, 1, l.take - Len(l.result))
                       ELSE passing
        result      == l.result \o kept
    IN  [l EXCEPT !.nextBatchSkip = @ + Len(passing),
                  !.result = result,
                  !.batches = @ + 1,
                  !.pc = IF hasNoMore \/ Len(result) >= l.take
                         THEN "done" ELSE "loop"]

\* One turn of the while loop.
listBatch(l) ==
    LET partialList == getPagination(l.table, l.nextBatchSkip, l.take)
        hasNoMore   == Len(partialList) < l.take
        passing     == runCustomQuery(l.table, partialList)
        kept        == IF Len(passing) + Len(l.result) > l.take
                       THEN SubSeq(passing, 1, l.take - Len(l.result))
                       ELSE passing
        result      == l.result \o kept
    IN  [l EXCEPT !.nextBatchSkip = @ + Len(partialList),
                  !.result = result,
                  !.batches = @ + 1,
                  !.pc = IF hasNoMore \/ Len(result) >= l.take
                         THEN "done" ELSE "loop"]

(***************************************************************************)
(* BaseController: @Route, @AuthScope and router()                         *)
(***************************************************************************)
\* The routes one controller class declares.
MaxRoutes == 2

\* The method argument of @Route: one verb, or a list of verbs. Each verb
\* here is taken as one the router has a function for.
MethodLists ==
    { <<v>> : v \in {"get", "post", "put", "patch", "del", "delete"} }
        \cup { <<"get", "post">> }

Paths == {"/", "/:id"}

Scopes == {"read", "write"}

Includes(methods, verb) == \E i \in DOMAIN methods : methods[i] = verb

\* The scope @Route gives a declaration.
RouteScope(methods) ==
    IF \/ Includes(methods, "post")
       \/ Includes(methods, "put")
       \/ Includes(methods, "patch")
       \/ Includes(methods, "delete")
    THEN "write" ELSE "read"

\* @Route( method, path, handler, appendLast ) on the method propertyKey.
Route(k, methods, path, appendLast) ==
    [k EXCEPT !.routes =
        Append(@, [methods |-> methods, path |-> path,
                   propertyKey |-> Len(k.routes) + 1,
                   appendLast |-> appendLast,
                   authScope |-> RouteScope(methods)])]

\* @AuthScope( scope ) on the method propertyKey.
AuthScope(k, propertyKey, scope) ==
    [k EXCEPT !.routes[propertyKey].authScope = scope,
              !.overridden = @ \cup {propertyKey}]

\* r[ 4 ] on a declaration: declarations are objects with named fields, and
\* none of them is named 4.
ElementFour(r) == FALSE

\* The router calls one declaration leads to, one per method.
Registrations(r) ==
    [i \in DOMAIN r.methods |->
        [method |-> r.methods[i], path |-> r.path,
         propertyKey |-> r.propertyKey, appendLast |-> r.appendLast,
         authScope |-> r.authScope]]

RECURSIVE Flatten(_)
Flatten(seqs) ==
    IF seqs = <<>> THEN <<>> ELSE Head(seqs) \o Flatten(Tail(seqs))

\* router(): firsts, then lasts, each registered with its methods.
router(k) ==
    LET firsts == SelectSeq(k.routes, LAMBDA r : ~ElementFour(r))
        lasts  == SelectSeq(k.routes, LAMBDA r : ElementFour(r))
        routes == firsts \o lasts
    IN  [k EXCEPT !.registered =
                      Flatten([i \in DOMAIN routes |-> Registrations(routes[i])]),
                  !.built = TRUE]

(***************************************************************************)
(* The other components before anything was asked of them                  *)
(***************************************************************************)
\* new Receiver( name ): _currentItem is not set and no setter is running.
\* stopping holds, in the order of the calls, the value each setter in
\* progress will assign; requested the values asked for since no setter was
\* in progress.
NewReceiver == [currentItem |-> NoItem, stopping |-> <<>>, requested |-> <<>>]

\* No list() was asked for.
NoListing == [listStart(<<>>, 0, 0) EXCEPT !.pc = "idle"]

\* A controller class before its decorators ran: no route is declared, no
\* auth scope was set by hand, no router was built.
NewController ==
    [routes |-> <<>>, overridden |-> {}, registered |-> <<>>, built |-> FALSE]

OthersAtRest ==
    /\ api = NoQuery
    /\ legacy = NewReceiver
    /\ listing = NoListing
    /\ controller = NewController

(***************************************************************************)
(* Actions: one per driver call                                            *)
(***************************************************************************)
Summary(op, arg, r) ==
    [op |-> op, arg |-> arg, outcome |-> r.outcome, err |-> r.err,
     status |-> r.status, trace |-> r.tr,
     preCurrent |-> current, preRegistry |-> registry]

\* The summary of a play() that was given custom options.
SummaryFrom(id, startTime, r) ==
    [op |-> "play", arg |-> id, outcome |-> r.outcome, err |-> r.err,
     status |-> r.status, trace |-> r.tr,
     preCurrent |-> current, preRegistry |-> registry,
     startTime |-> startTime]

Brief(l) == [op |-> l.op, arg |-> l.arg, outcome |-> l.outcome]

Here == Ctx(current, registry, device)

Play ==
    \E id \in PlayIds, in \in PlayInputs :
        \E r \in {play(Here, id, in)} :
            /\ current' = r.cur
            /\ registry' = r.reg
            /\ device' = r.dev
            /\ last' = Summary("play", id, r)
            /\ prev' = Brief(last)
            /\ UNCHANGED <<cvars, ovars>>

Pause ==
    \E in \in PauseInputs :
        \E r \in {pause(Here, in)} :
            /\ current' = r.cur
            /\ registry' = r.reg
            /\ device' = r.dev
            /\ last' = Summary("pause", NoSession, r)
            /\ prev' = Brief(last)
            /\ UNCHANGED <<cvars, ovars>>

Resume ==
    \E in \in PauseInputs :
        \E r \in {resume(Here, in)} :
            /\ current' = r.cur
            /\ registry' = r.reg
            /\ device' = r.dev
            /\ last' = Summary("resume", NoSession, r)
            /\ prev' = Brief(last)
            /\ UNCHANGED <<cvars, ovars>>

Stop ==
    \E in \in StopInputs :
        \E r \in {stop(Here, in)} :
            /\ current' = r.cur
            /\ registry' = r.reg
            /\ device' = r.dev
            /\ last' = Summary("stop", NoSession, r)
            /\ prev' = Brief(last)
            /\ UNCHANGED <<cvars, ovars>>

Turnoff ==
    \E in \in TurnoffInputs :
        \E r \in {turnoff(Here, in)} :
            /\ current' = r.cur
            /\ registry' = r.reg
            /\ device' = r.dev
            /\ last' = Summary("turnoff", NoSession, r)
            /\ prev' = Brief(last)
            /\ UNCHANGED <<cvars, ovars>>

Status ==
    \E in \in StatusInputs :
        \E r \in {status(Here, in)} :
            /\ current' = r.cur
            /\ registry' = r.reg
            /\ device' = r.dev
            /\ last' = Summary("status", NoSession, r)
            /\ prev' = Brief(last)
            /\ UNCHANGED <<cvars, ovars>>

\* play( id, { startTime } ): the custom options go into playOptions, which
\* nothing reads; the call goes on as play( id ).
PlayFrom ==
    \E id \in SessionIds, startTime \in Positions, in \in PlayInputs :
        \E r \in {play(Here, id, in)} :
            /\ current' = r.cur
            /\ registry' = r.reg
            /\ device' = r.dev
            /\ last' = SummaryFrom(id, startTime, r)
            /\ prev' = Brief(last)
            /\ UNCHANGED <<cvars, ovars>>

\* The arguments a caller passes along with a name.
ArgsOf(name) == IF name = "play" THEN PlayIds ELSE {NoSession}

SummaryCommand(name, arg, r) ==
    [op |-> "callCommand", arg |-> arg, outcome |-> r.outcome, err |-> r.err,
     status |-> r.status, trace |-> r.tr,
     preCurrent |-> current, preRegistry |-> registry,
     name |-> name]

CallCommand ==
    \E name \in CommandNames, in \in FailsOnce({"command", "status"}) :
        \E arg \in ArgsOf(name) :
            \E r \in {callCommand(Here, name, arg, in)} :
                /\ current' = r.cur
                /\ registry' = r.reg
                /\ device' = r.dev
                /\ last' = SummaryCommand(name, arg, r)
                /\ prev' = Brief(last)
                /\ UNCHANGED <<cvars, ovars>>

SetVolume ==
    \E level \in Levels, in \in FailsOnce({"command", "status"}) :
        \E r \in {setVolume(Here, level, in)} :
            /\ current' = r.cur
            /\ registry' = r.reg
            /\ device' = r.dev
            /\ last' = Summary("setVolume", level, r)
            /\ prev' = Brief(last)
            /\ UNCHANGED <<cvars, ovars>>

Mute ==
    \E in \in FailsOnce({"command", "status"}) :
        \E r \in {mute(Here, in)} :
            /\ current' = r.cur
            /\ registry' = r.reg
            /\ device' = r.dev
            /\ last' = Summary("mute", NoSession, r)
            /\ prev' = Brief(last)
            /\ UNCHANGED <<cvars, ovars>>

Unmute ==
    \E in \in FailsOnce({"command", "status"}) :
        \E r \in {unmute(Here, in)} :
            /\ current' = r.cur
            /\ registry' = r.reg
            /\ device' = r.dev
            /\ last' = Summary("unmute", NoSession, r)
            /\ prev' = Brief(last)
            /\ UNCHANGED <<cvars, ovars>>

\* The player changes state on its own (its remote, end of file).
OutOfBand ==
    /\ \E d \in DeviceStates : d # device /\ device' = d
    /\ UNCHANGED <<current, registry, last, prev, conn, sync, proc, ovars>>

\* Somebody turns the volume knob of the player or presses its mute button.
OutOfBandMedia ==
    /\ \E level \in Levels, muted \in BOOLEAN :
        /\ device' = [device EXCEPT !.volume = level, !.mute = muted]
        /\ device' # device
    /\ UNCHANGED <<current, registry, last, prev, conn, sync, proc, ovars>>

NoCall ==
    [op |-> "none", arg |-> NoSession, outcome |-> "ok", err |-> "none",
     status |-> NoStatus, trace |-> <<>>,
     preCurrent |-> NoSession, preRegistry |-> SessionIds]

Init ==
    /\ current = NoSession
    /\ registry = SessionIds
    /\ device = DeviceIdle
    /\ last = NoCall
    /\ prev = Brief(NoCall)
    /\ conn = NewConnection(NoAddress)
    /\ sync = Unlocked
    /\ proc = [p \in Callers |-> Idle]
    /\ OthersAtRest

Next == Play \/ Pause \/ Resume \/ Stop \/ Turnoff \/ Status \/ OutOfBand

Spec == Init /\ [][Next]_vars

\* The driver called by name.
NextCommand == CallCommand \/ OutOfBand

SpecCommand == Init /\ [][NextCommand]_vars

\* The driver with its sound and start-offset calls.
NextMedia ==
    PlayFrom \/ SetVolume \/ Mute \/ Unmute \/ Stop \/ Status \/ OutOfBandMedia

SpecMedia == Init /\ [][NextMedia]_vars

(***************************************************************************)
(* Actions of the connection                                               *)
(***************************************************************************)
Me(p) == World(conn, proc[p])

\* The address open() would use now.
AddressInUse == IF conn.usingFallback THEN conn.fallback ELSE "primary"

\* A caller invokes call( command, args ).
CallBegin(p) ==
    /\ proc[p].pc \in {"idle", "done"}
    /\ \E w \in {callEnter(World(conn, Starting(proc[p], "call", "idle")))} :
        /\ conn' = w.k
        /\ proc' = [proc EXCEPT ![p] = w.me]
    /\ UNCHANGED <<sync, current, registry, device, last, prev, ovars>>

\* open() is entered and its body runs; creating the client succeeds or
\* throws.
OpenEnter(p) ==
    /\ proc[p].pc = "wantOpen"
    /\ Synchronized(sync.open)
    /\ \E out \in OpenOutcomes :
        /\ conn' = IF out = "ok" THEN open(conn, proc[p].op) ELSE conn
        /\ proc' = [proc EXCEPT ![p].pc = "inOpen",
                                ![p].pend = Pending(AddressInUse, out)]
    /\ sync' = [sync EXCEPT !.open = p]
    /\ UNCHANGED <<current, registry, device, last, prev, ovars>>

\* open() settles and whoever awaited it goes on: call() with its loop,
\* connect() to its return.
OpenExit(p) ==
    /\ proc[p].pc = "inOpen"
    /\ sync' = [sync EXCEPT !.open = 0]
    /\ IF proc[p].op = "call"
       THEN \E w \in {callOpened(Me(p))} :
                /\ conn' = w.k
                /\ proc' = [proc EXCEPT ![p] = w.me]
       ELSE /\ conn' = conn
            /\ proc' = [proc EXCEPT
                   ![p].pc = "connectReturn",
                   ![p].pend = NoAnswer,
                   ![p].res = IF proc[p].pend.out = "ok" THEN "ok" ELSE "error"]
    /\ UNCHANGED <<current, registry, device, last, prev, ovars>>

\* The request in flight is answered.
RequestReturn(p) ==
    /\ proc[p].pc = "request"
    /\ \E out \in RequestOutcomes :
        \E w \in {callAnswered(Me(p), out)} :
            /\ conn' = w.k
            /\ proc' = [proc EXCEPT ![p] = w.me]
    /\ UNCHANGED <<sync, current, registry, device, last, prev, ovars>>

\* A caller invokes connect() on the receiver.
ConnectBegin(p) ==
    /\ proc[p].pc \in {"idle", "done"}
    /\ proc' = [proc EXCEPT ![p] = Starting(proc[p], "connect", "wantConnect")]
    /\ UNCHANGED <<conn, sync, current, registry, device, last, prev, ovars>>

\* connect() is entered: it opens the connection if the connection is
\* connected, and otherwise goes straight to `return true`.
ConnectEnter(p) ==
    /\ proc[p].pc = "wantConnect"
    /\ Synchronized(sync.connect)
    /\ sync' = [sync EXCEPT !.connect = p]
    /\ proc' = [proc EXCEPT
           ![p].pc = IF connected(conn) THEN "wantOpen" ELSE "connectReturn",
           ![p].res = IF connected(conn) THEN "none" ELSE "ok"]
    /\ UNCHANGED <<conn, current, registry, device, last, prev, ovars>>

ConnectExit(p) ==
    /\ proc[p].pc = "connectReturn"
    /\ sync' = [sync EXCEPT !.connect = 0]
    /\ proc' = [proc EXCEPT
           ![p].pc = "done",
           ![p].did = Append(@, Did("connect", proc[p].res = "ok"))]
    /\ UNCHANGED <<conn, current, registry, device, last, prev, ovars>>

\* A caller invokes disconnect() on the receiver.
Disconnect(p) ==
    /\ proc[p].pc \in {"idle", "done"}
    /\ \E ok \in BOOLEAN :
        \E w \in {disconnect(World(conn, Starting(proc[p], "disconnect", "done")), ok)} :
            /\ conn' = w.k
            /\ proc' = [proc EXCEPT ![p] = [w.me EXCEPT !.res = IF ok THEN "ok" ELSE "error"]]
    /\ UNCHANGED <<sync, current, registry, device, last, prev, ovars>>

\* A caller invokes reconnect(): disconnect() runs up to the await.
ReconnectBegin(p) ==
    /\ proc[p].pc \in {"idle", "done"}
    /\ \E ok \in BOOLEAN :
        \E w \in {disconnect(World(conn, Starting(proc[p], "reconnect", "reconnecting")), ok)} :
            /\ conn' = w.k
            /\ proc' = [proc EXCEPT ![p] = w.me]
    /\ UNCHANGED <<sync, current, registry, device, last, prev, ovars>>

\* disconnect() has settled; the finally block calls connect().
ReconnectFinally(p) ==
    /\ proc[p].pc = "reconnecting"
    /\ proc' = [proc EXCEPT ![p] = reconnectFinally(proc[p])]
    /\ UNCHANGED <<conn, sync, current, registry, device, last, prev, ovars>>

ReceiverAtRest ==
    /\ current = NoSession
    /\ registry = SessionIds
    /\ device = DeviceIdle
    /\ last = NoCall
    /\ prev = Brief(NoCall)

InitConn ==
    /\ ReceiverAtRest
    /\ conn \in { NewConnection(fb) : fb \in {NoAddress, "fallback"} }
    /\ sync = Unlocked
    /\ proc = [p \in Callers |-> Watched]
    /\ OthersAtRest

\* One caller at a time: every call() runs to its end before the next.
Sequential == {1}

NextConn ==
    \E p \in Sequential :
        \/ CallBegin(p) \/ OpenEnter(p) \/ OpenExit(p) \/ RequestReturn(p)
        \/ ConnectBegin(p) \/ ConnectEnter(p) \/ ConnectExit(p)
        \/ Disconnect(p) \/ ReconnectBegin(p) \/ ReconnectFinally(p)

SpecConn == InitConn /\ [][NextConn]_vars

InitConc ==
    /\ ReceiverAtRest
    /\ conn \in { NewConnection(fb) : fb \in {NoAddress, "fallback"} }
    /\ sync = Unlocked
    /\ proc = [p \in Callers |-> Idle]
    /\ OthersAtRest

\* Callers overlap at every await.
NextConc ==
    \E p \in Callers :
        \/ CallBegin(p) \/ OpenEnter(p) \/ OpenExit(p) \/ RequestReturn(p)
        \/ ConnectBegin(p) \/ ConnectEnter(p) \/ ConnectExit(p)
        \/ Disconnect(p) \/ ReconnectBegin(p) \/ ReconnectFinally(p)

SpecConc == InitConc /\ [][NextConc]_vars

(***************************************************************************)
(* KodiConnection: the requests its operations send through call()         *)
(***************************************************************************)
\* The length of the file being played, in seconds.
Duration == 60

\* The times a caller passes to seekRelative() and to seek(), in half
\* seconds: offsets of -1.5, -0.5, 0.5 and 1.5 seconds; targets of 0, 0.5,
\* 1.5 seconds and the end of the file.
SeekOffsets == {-3, -1, 1, 3}

SeekTargets == {0, 1, 3, 2 * Duration}

\* Math.round of a time given in half seconds, in seconds: 0.5 goes to 1 and
\* -0.5 to 0.
RoundSeconds(h) == (h + 1) \div 2

Request(method, value) == [method |-> method, value |-> value]

\* No video player is active: the operation sends nothing after
\* Player.GetActivePlayers.
NoRequest == Request("Player.GetActivePlayers", 0)

\* The request an operation of the connection hands to call(), after the
\* reads it needs to build it.
RequestOf(name, arg, dev) ==
    CASE name = "play"   -> Request("Player.Open", arg)
      [] name = "volume" -> Request("Application.SetVolume", arg)
      [] name = "mute"   -> Request("Application.SetMute", 1)
      [] name = "unmute" -> Request("Application.SetMute", 0)
      [] ~dev.loaded     -> NoRequest
      [] name = "pause"  -> Request("Player.PlayPause", 0)
      [] name = "resume" -> Request("Player.PlayPause", 1)
      [] name = "stop"   -> Request("Player.Stop", 0)
      [] name = "status" -> Request("Player.GetProperties", 0)
      [] name = "seekRelative" ->
             Request("Player.Seek", RoundSeconds(arg))
      [] name = "seek" ->
             Request("Player.Seek", RoundSeconds(arg - 2 * dev.position))
      [] OTHER -> NoRequest

KodiOperations ==
    {"play", "pause", "resume", "stop", "status", "volume", "mute", "unmute",
     "seekRelative", "seek"}

KodiArgs(name) ==
    CASE name = "play"         -> PlayIds \ {UnknownId}
      [] name = "volume"       -> Levels
      [] name = "seekRelative" -> SeekOffsets
      [] name = "seek"         -> SeekTargets
      [] OTHER                 -> {0}

Within(lo, n, hi) == IF n < lo THEN lo ELSE IF n > hi THEN hi ELSE n

\* The player executes one request.  Player.Seek with a number of seconds
\* moves the position by that many seconds: seek() sends the distance from
\* the position it has just read.
Execute(req, dev) ==
    CASE req.method = "Player.Open" -> DeviceAfter("play", req.value, dev)
      [] req.method = "Player.PlayPause" ->
             DeviceAfter(IF req.value = 1 THEN "resume" ELSE "pause", 0, dev)
      [] req.method = "Player.Stop" -> DeviceAfter("stop", 0, dev)
      [] req.method = "Application.SetVolume" ->
             DeviceAfter("volume", req.value, dev)
      [] req.method = "Application.SetMute" ->
             DeviceAfter(IF req.value = 1 THEN "mute" ELSE "unmute", 0, dev)
      [] req.method = "Player.Seek" ->
             IF dev.loaded
             THEN [dev EXCEPT !.position = Within(0, @ + req.value, Duration)]
             ELSE dev
      [] OTHER -> dev

SummaryRequest(name, arg, req) ==
    [op |-> "call", arg |-> arg, outcome |-> "ok", err |-> "none",
     status |-> NoStatus,
     trace |-> <<Step("transport", req.method, req.value)>>,
     preCurrent |-> current, preRegistry |-> registry,
     name |-> name, request |-> req]

\* One operation of the connection whose request the player executes once.
KodiCall ==
    \E name \in KodiOperations :
        \E arg \in KodiArgs(name) :
            \E req \in {RequestOf(name, arg, device)} :
                /\ device' = Execute(req, device)
                /\ last' = SummaryRequest(name, arg, req)
                /\ prev' = Brief(last)
                /\ UNCHANGED <<current, registry>>
                /\ UNCHANGED <<cvars, ovars>>

\* The player behind the connection, one request at a time.
NextDevice == KodiCall

SpecDevice == Init /\ [][NextDevice]_vars

(***************************************************************************)
(* KodiApi: one query at a time                                            *)
(***************************************************************************)
\* query( query, kind, options ) is called and the device replies.
Query ==
    /\ \E kind \in Kinds, options \in QueryOptions, reply \in Replies :
        api' = [kind |-> kind, options |-> options, reply |-> reply,
                answer |-> query(kind, options, reply)]
    /\ UNCHANGED <<dvars, cvars, legacy, listing, controller>>

NextApi == Query

SpecApi == Init /\ [][NextApi]_vars

(***************************************************************************)
(* The legacy Receiver: play, stop and the stops they wait for             *)
(***************************************************************************)
\* A call starts a new run of calls, or adds to the run in progress.
MayCall == legacy.stopping = <<>> \/ Len(legacy.requested) < MaxBackToBack

\* play( item ) { this.current = item }
LegacyPlay ==
    /\ MayCall
    /\ \E item \in Items : legacy' = setCurrent(legacy, item)
    /\ UNCHANGED <<dvars, cvars, api, listing, controller>>

\* stop() { this.current = null }
LegacyStop ==
    /\ MayCall
    /\ legacy' = setCurrent(legacy, NoItem)
    /\ UNCHANGED <<dvars, cvars, api, listing, controller>>

\* One of the stops in progress completes, in any order.
StopCompletes ==
    /\ \E i \in DOMAIN legacy.stopping : legacy' = stopDone(legacy, i)
    /\ UNCHANGED <<dvars, cvars, api, listing, controller>>

NextLegacy == LegacyPlay \/ LegacyStop \/ StopCompletes

SpecLegacy == Init /\ [][NextLegacy]_vars

(***************************************************************************)
(* BaseTableController: list(), one database query at a time               *)
(***************************************************************************)
\* GET / with its skip and take, on some table.
ListBegin ==
    /\ listing.pc \in {"idle", "done"}
    /\ \E table \in Tables, skip \in 0..MaxSkip, take \in Takes :
        listing' = listStart(table, skip, take)
    /\ UNCHANGED <<dvars, cvars, api, legacy, controller>>

\* The database answers the query of the batch and the loop body runs.
ListBatch ==
    /\ listing.pc = "loop"
    /\ listing' = listBatch(listing)
    /\ UNCHANGED <<dvars, cvars, api, legacy, controller>>

NextList == ListBegin \/ ListBatch

SpecList == Init /\ [][NextList]_vars

(***************************************************************************)
(* A controller class: its decorators run, then its router is built        *)
(***************************************************************************)
DeclareRoute ==
    /\ ~controller.built
    /\ Len(controller.routes) < MaxRoutes
    /\ \E methods \in MethodLists, path \in Paths, appendLast \in BOOLEAN :
        controller' = Route(controller, methods, path, appendLast)
    /\ UNCHANGED <<dvars, cvars, api, legacy, listing>>

DeclareScope ==
    /\ ~controller.built
    /\ \E propertyKey \in DOMAIN controller.routes, scope \in Scopes :
        /\ propertyKey \notin controller.overridden
        /\ controller' = AuthScope(controller, propertyKey, scope)
    /\ UNCHANGED <<dvars, cvars, api, legacy, listing>>

BuildRouter ==
    /\ ~controller.built
    /\ controller' = router(controller)
    /\ UNCHANGED <<dvars, cvars, api, legacy, listing>>

NextRoutes == DeclareRoute \/ DeclareScope \/ BuildRouter

SpecRoutes == Init /\ [][NextRoutes]_vars

(***************************************************************************)
(* Reading the trace of the last call                                      *)
(***************************************************************************)
TraceSteps(k) == { i \in DOMAIN last.trace : last.trace[i].k = k }

ReleasesOf(id) == { i \in TraceSteps("release") : last.trace[i].a = id }

Commands(name) == { i \in TraceSteps("transport") : last.trace[i].n = name }

PointerSetTo(id) == { i \in TraceSteps("set") : last.trace[i].a = id }

\* play( id ) on an id the registry resolved.
ResolvedPlay == last.op = "play" /\ last.arg \in last.preRegistry

\* play( id ) on a resolved session without a video stream.
NoVideoPlay == ResolvedPlay /\ ~HasVideo(last.arg)

\* play() got through its try block: it returned, or only the final status
\* read failed.
PlaySetupDone ==
    last.op = "play" /\ (last.outcome = "ok" \/ Commands("status") # {})

\* play( B ) while another session A is current.
DisplacingPlay ==
    /\ ResolvedPlay
    /\ last.preCurrent # NoSession
    /\ last.preCurrent # last.arg

\* play( X ) while X itself is current.
Replay == ResolvedPlay /\ last.preCurrent = last.arg

\* stop() whose transport stop command failed.
StopCommandFailed ==
    /\ last.op = "stop"
    /\ last.err = TransportError
    /\ Commands("status") = {}

\* The lifecycle state status() derives from the reply of the player: no
\* file path means Stopped, otherwise the pause flag decides.
LifecycleOf(dev) ==
    IF ~dev.loaded THEN "STOPPED" ELSE IF dev.pause THEN "PAUSED" ELSE "PLAYING"

(***************************************************************************)
(* Claims                                                                  *)
(***************************************************************************)

\* C1: the current session of a receiver is null or a session still bound in
\* the registry; a released session is never current.
C1_ReleasedNeverCurrent == current # NoSession => current \in registry

\* C2: play(A) followed immediately by play(B), B # A, whose setup succeeds:
\* A goes from bound to released by exactly one release, and B is current.
C2_PlayDisplaces ==
    (/\ prev.op = "play" /\ prev.outcome = "ok"
     /\ PlaySetupDone /\ last.arg # prev.arg)
    => /\ last.preCurrent = prev.arg
       /\ prev.arg \in last.preRegistry
       /\ Cardinality(ReleasesOf(prev.arg)) = 1
       /\ prev.arg \notin registry
       /\ current = last.arg

C2_Witness ==
    /\ prev.op = "play" /\ prev.outcome = "ok"
    /\ last.op = "play" /\ last.outcome = "ok" /\ last.arg # prev.arg

\* C3: a play(X) that raises after the registry resolved X has released X,
\* passes an error to the caller and does not leave X current.
C3_FailedPlayReleases ==
    (ResolvedPlay /\ last.outcome = "error")
    => /\ last.arg \notin registry
       /\ current # last.arg
       /\ last.err # "none"

\* C4 as stated: a play(X) that fails after the pointer was set to X returns
\* with the pointer back at its value before the call, and X released.
C4_PointerRestored ==
    (last.op = "play" /\ last.outcome = "error" /\ PointerSetTo(last.arg) # {})
    => /\ current = last.preCurrent
       /\ last.arg \notin registry

\* C4 amended: a play(X) that fails after the pointer was set to X returns
\* with the pointer null and X released when the notification raised, and
\* with X still current and bound when the final status read raised; the
\* pointer is never put back to a displaced session.
C4_PointerCleared ==
    (last.op = "play" /\ last.outcome = "error" /\ PointerSetTo(last.arg) # {})
    => /\ last.err = NotifyError
          => current = NoSession /\ last.arg \notin registry
       /\ last.err # NotifyError
          => /\ Commands("status") # {}
             /\ current = last.arg
             /\ last.arg \in registry
       /\ last.preCurrent \notin {NoSession, last.arg} => current # last.preCurrent

C4_Witness ==
    /\ last.op = "play" /\ last.err = NotifyError
    /\ last.preCurrent \notin {NoSession, last.arg}
    /\ last.preCurrent \in last.preRegistry

\* C5: after a stop() that returns, the pointer is null and the status it
\* returned is the Stopped snapshot with a null session; so is the status
\* returned by a status() call that follows it.
C5_StopLeavesStopped ==
    /\ (last.op = "stop" /\ last.outcome = "ok")
       => current = NoSession /\ last.status = StoppedSnapshot
    /\ (prev.op = "stop" /\ prev.outcome = "ok" /\ last.op = "status" /\ last.outcome = "ok")
       => current = NoSession /\ last.status = StoppedSnapshot

C5_Witness ==
    /\ prev.op = "stop" /\ prev.outcome = "ok"
    /\ last.op = "status" /\ last.outcome = "ok"

\* C6: status() never raises, whatever the device and the transport do.
C6_StatusNeverRaises == last.op = "status" => last.outcome = "ok"

\* C7: with no current session status() returns the Stopped snapshot with a
\* null record and a null session, whatever the device reports.
C7_StatusWithoutSession ==
    (last.op = "status" /\ last.preCurrent = NoSession)
    => last.outcome = "ok" /\ last.status = StoppedSnapshot

\* C8 as stated: play(id) on a session without video changes neither the
\* pointer nor any registry binding, and emits nothing.
C8_NoVideoUntouched ==
    NoVideoPlay
    => /\ current = last.preCurrent
       /\ registry = last.preRegistry
       /\ TraceSteps("emit") = {}

\* C8 amended: play(id) on a session without video fails, leaves the pointer
\* and the binding of every other session as they were and emits nothing,
\* but releases id itself.
C8_NoVideoReleasesOnlyItself ==
    NoVideoPlay
    => /\ last.outcome = "error"
       /\ current = last.preCurrent
       /\ registry = last.preRegistry \ {last.arg}
       /\ TraceSteps("emit") = {}

C8_Witness ==
    /\ NoVideoPlay
    /\ last.preCurrent # NoSession /\ last.preCurrent \in last.preRegistry

\* C9: play(id) on a session without video raises the no-video error before
\* any transport command is issued.
C9_NoVideoBeforeTransport ==
    NoVideoPlay
    => /\ last.outcome = "error"
       /\ last.err = NoVideoStreamError
       /\ TraceSteps("transport") = {}

C9_Witness == NoVideoPlay /\ last.err = NoVideoStreamError

\* C10: play(id) on an id the registry cannot resolve raises
\* SessionNotFoundError and does nothing else: no transport command, no
\* release, no notification, pointer and registry unchanged.
C10_UnknownIdDoesNothing ==
    (last.op = "play" /\ last.arg \notin last.preRegistry)
    => /\ last.outcome = "error" /\ last.err = SessionNotFoundError
       /\ TraceSteps("transport") = {}
       /\ TraceSteps("release") = {}
       /\ TraceSteps("emit") = {}
       /\ current = last.preCurrent
       /\ registry = last.preRegistry

C10_Witness ==
    /\ last.op = "play" /\ last.arg \notin last.preRegistry
    /\ last.arg \in SessionIds /\ last.preCurrent # NoSession

(***************************************************************************)
(* Reading the attempts of a call                                          *)
(***************************************************************************)
\* The attempt of caller p that is i places from the latest (0 = latest).
Back(p, i) == proc[p].log[Len(proc[p].log) - i]

ConnectivityFailure(a, address) ==
    a.address = address /\ a.out \in ConnectivityCodes

Raised(p) == proc[p].pc = "done" /\ proc[p].res = "error"

Returned(p) == proc[p].pc = "done" /\ proc[p].res = "ok"

(***************************************************************************)
(* Claims on the connection                                                *)
(***************************************************************************)

\* C11: with a fallback configured, a connectivity failure on the primary
\* followed by a connectivity failure of the next attempt, on the fallback,
\* ends the call with the error raised; there is no further attempt.
C11_RaisesAfterBothFail ==
    \A p \in Callers :
        (/\ proc[p].op = "call" /\ Len(proc[p].log) >= 2
         /\ conn.fallback # NoAddress
         /\ ConnectivityFailure(Back(p, 1), "primary")
         /\ ConnectivityFailure(Back(p, 0), "fallback"))
        => Raised(p)

\* C12: when an attempt on the primary fails with a connectivity error and
\* the attempt that follows it succeeds and call() returns, that attempt was
\* made on the fallback, usingFallback is true and
\* failedAttemptsAtConnecting is 0.
C12_FallbackTakesOver ==
    \A p \in Callers :
        (/\ proc[p].op = "call" /\ Len(proc[p].log) >= 2
         /\ ConnectivityFailure(Back(p, 1), "primary")
         /\ Back(p, 0).out = "ok"
         /\ Returned(p))
        => /\ Back(p, 0).address = "fallback"
           /\ conn.usingFallback
           /\ conn.failedAttemptsAtConnecting = 0

C12_Witness ==
    \E p \in Callers :
        /\ Returned(p) /\ Len(proc[p].log) >= 2
        /\ Back(p, 1) = Attempt("request", "primary", "ECONNREFUSED")
        /\ Back(p, 0) = Attempt("request", "fallback", "ok")
        /\ conn.usingFallback

\* C13: a request that is answered 'socket not ready' is sent again once;
\* when the second one is answered 'socket not ready' too, the call ends
\* with the error raised.
C13_NotReadyRetriedOnce ==
    \A p \in Callers :
        (/\ proc[p].op = "call" /\ Len(proc[p].log) >= 2
         /\ Back(p, 1).out = NotReady
         /\ Back(p, 0).out = NotReady)
        => Raised(p)

InOpen == { p \in Callers : proc[p].pc = "inOpen" }

InConnect ==
    { p \in Callers : /\ proc[p].op \in {"connect", "reconnect"}
                      /\ proc[p].pc \in {"wantOpen", "inOpen", "connectReturn"} }

\* C15: at no time are two executions of open() on the connection, or two
\* executions of connect() on the receiver, in progress together.
C15_OpenNeverOverlaps ==
    /\ Cardinality(InOpen) <= 1
    /\ Cardinality(InConnect) <= 1

\* One caller is inside open() while another, that also found the connection
\* closed, waits to enter it.
C15_Witness ==
    \E p, q \in Callers :
        /\ p # q
        /\ proc[p].pc = "inOpen" /\ proc[p].op = "call"
        /\ proc[q].pc = "wantOpen" /\ proc[q].op = "call"

\* C16: between two closes of the connection, the callers of call() that
\* found it closed create one client between them.
C16_SingleAttempt == conn.opens <= 1

(***************************************************************************)
(* Claims on the driver, continued                                         *)
(***************************************************************************)
\* The ids the last call released, however many times each.
Released == { last.trace[i].a : i \in TraceSteps("release") }

PauseWithoutSession == last.op = "pause" /\ last.preCurrent = NoSession

C19_VolumeReported ==
    [][(last' # last /\ last'.op = "setVolume" /\ last'.outcome = "ok")
       => /\ last'.status.volume.level = last'.arg
          /\ last'.status.volume.muted = device.mute]_vars

\* C20: the status a successful play( X, { startTime: t } ) returns is
\* Playing at position t, within a second.
C20_StartsAtOffset ==
    (last.op = "play" /\ last.outcome = "ok" /\ "startTime" \in DOMAIN last)
    => /\ last.status.state = "PLAYING"
       /\ last.status.current - last.startTime \in -1 .. 1

\* C21: callCommand( name, args ) invokes the operation for a name of the
\* contract; for every other name it invokes nothing and fails with the
\* invalid-command error.
C21_OnlyContractOperations ==
    last.op = "callCommand"
    => IF last.name \in ContractOps
       THEN Len(last.trace) >= 1 /\ last.trace[1] = Step("invoke", last.name, last.arg)
       ELSE /\ last.trace = <<>>
            /\ last.outcome = "error" /\ last.err = InvalidArgumentError

\* C22: a reconnect() that has ended went through disconnect() and then
\* through connect(), whether disconnect() failed or not, and its result is
\* the result of that connect().
C22_ReconnectAlwaysConnects ==
    \A p \in Callers :
        (proc[p].op = "reconnect" /\ proc[p].pc = "done")
        => /\ Len(proc[p].did) = 2
           /\ proc[p].did[1].what = "disconnect"
           /\ proc[p].did[2].what = "connect"
           /\ proc[p].res = IF proc[p].did[2].ok THEN "ok" ELSE "error"

\* A reconnect() whose disconnect() failed returned what connect() returned.
C22_Witness ==
    \E p \in Callers :
        /\ proc[p].op = "reconnect" /\ Returned(p)
        /\ proc[p].did = <<Did("disconnect", FALSE), Did("connect", TRUE)>>

\* C23: when connect() or reconnect() has returned true, the connection is
\* open.
C23_TrueMeansOpen ==
    \A p \in Sequential :
        (proc[p].op \in {"connect", "reconnect"} /\ Returned(p))
        => connected(conn)

\* C24: every 'play', 'pause', 'resume' and 'stop' notification carries the id
\* of the session it is about, never null: 'play' the session just bound,
\* the others the session that was current when the operation was invoked.
C24_NotificationCarriesSession ==
    \A i \in TraceSteps("emit") :
        /\ last.trace[i].a # NoSession
        /\ last.trace[i].n = "play" => last.trace[i].a = last.arg
        /\ last.trace[i].n \in {"pause", "resume", "stop"}
               => last.trace[i].a = last.preCurrent

\* C26: when play( B ) displaces the current session A, A is released in the
\* registry before the transport play command for B is sent and before B
\* becomes current; B is never current while A is still bound.
C26_ReleaseBeforeBinding ==
    DisplacingPlay =>
        /\ \A i \in Commands("play") \cup PointerSetTo(last.arg) :
               \E j \in ReleasesOf(last.preCurrent) : j < i
        /\ current = last.arg => last.preCurrent \notin registry

C26_Witness ==
    /\ DisplacingPlay
    /\ last.preCurrent \in last.preRegistry
    /\ last.outcome = "ok"
    /\ current = last.arg

\* C27: when play( B ) displaces the current session A, a transport-level stop
\* is attempted for A before B is bound, and A is released whether that stop
\* succeeds or fails.
C27_StopsDisplacedSession ==
    (DisplacingPlay /\ PointerSetTo(last.arg) # {}) =>
        /\ \E i \in Commands("stop") :
               \A j \in PointerSetTo(last.arg) : i < j
        /\ last.preCurrent \notin registry

\* C28: a stop() that succeeds releases the current session, then clears the
\* current pointer, then emits 'stop' with the released id, then reads the
\* status, in that order, after its transport stop command.
C28_StopOrder ==
    (last.op = "stop" /\ last.outcome = "ok") =>
        last.trace = << Step("transport", "stop", 0),
                        Step("release", "sessions", last.preCurrent),
                        Step("set", "current", NoSession),
                        Step("emit", "stop", last.preCurrent),
                        Step("transport", "status", 0) >>

C28_Witness ==
    /\ last.op = "stop"
    /\ last.outcome = "ok"
    /\ last.preCurrent \in last.preRegistry
    /\ current = NoSession
    /\ last.preCurrent \notin registry

\* C29: when the transport stop command fails, stop() raises and changes
\* nothing: the session stays current and bound and nothing is emitted.
C29_FailedStopChangesNothing ==
    StopCommandFailed =>
        /\ last.outcome = "error"
        /\ current = last.preCurrent
        /\ registry = last.preRegistry
        /\ TraceSteps("emit") = {}
        /\ TraceSteps("release") = {}
        /\ TraceSteps("set") = {}

C29_Witness ==
    /\ StopCommandFailed
    /\ current # NoSession
    /\ current \in registry

\* C30: play( X ) while X is already current never releases X when it
\* succeeds: X is still current and bound, and no other binding changed.
C30_ReplayKeepsSession ==
    (Replay /\ PlaySetupDone) =>
        /\ current = last.arg
        /\ last.arg \in registry
        /\ registry = last.preRegistry
        /\ TraceSteps("release") = {}

C30_Witness ==
    /\ Replay
    /\ last.outcome = "ok"
    /\ current = last.arg
    /\ last.status.session = last.arg

\* C25: every request that call() may issue again is idempotent at the
\* device: executing the request of a contract command twice leaves the
\* player in the state it is in after executing it once.
C25_RequestIdempotent ==
    last.op = "call" => Execute(last.request, device) = device

(***************************************************************************)
(* Claims on status, the fallback policy and the connection under close()   *)
(***************************************************************************)

\* C31: status() never answers from a cache: every call queries the player
\* first, and the lifecycle state of every status() that returns is the one
\* of the player at the time of the call, whatever happened to the player
\* out-of-band since the call before and whatever the driver tracks locally.
C31_StatusMirrorsDevice ==
    [][ (last' # last /\ last'.op = "status")
        => /\ last'.trace # <<>>
           /\ last'.trace[1] = Step("transport", "status", 0)
           /\ last'.outcome = "ok"
                  => last'.status.state = LifecycleOf(device') ]_vars

\* pause() returned Paused, and the status() right after it returns Playing:
\* the player was resumed out-of-band in between.
C31_Witness ==
    /\ last.op = "status"
    /\ last.outcome = "ok"
    /\ last.status.state = "PLAYING"
    /\ prev = [op |-> "pause", arg |-> NoSession, outcome |-> "ok"]
    /\ current # NoSession

\* A step in which the call() of p handles the failure of its open() or of
\* its request, and the error it handles.
FailureOf(p) ==
    IF proc[p].pc = "inOpen" THEN proc[p].pend.out
    ELSE proc'[p].log[Len(proc'[p].log)].out

FailureHandled(p) ==
    /\ proc[p].op = "call"
    /\ proc[p].pc \in {"inOpen", "request"}
    /\ proc'[p].pc # proc[p].pc
    /\ FailureOf(p) # "ok"

\* The three conditions of the fallback policy, before the failure is
\* counted.
MayToggle(err) ==
    /\ IsConnectivity(err)
    /\ conn.fallback # NoAddress
    /\ conn.failedAttemptsAtConnecting + 1 <= 1

Toggled == conn'.usingFallback # conn.usingFallback

\* The connection is reset and the call goes round again.
Retried(p) == conn'.client = NoClient /\ proc'[p].pc = "wantOpen"

Propagated(p) == proc'[p].pc = "done" /\ proc'[p].res = "error"

\* C32 as stated: the policy toggles the address, resets the connection and
\* retries exactly when the error is connectivity-shaped, a fallback is
\* configured and the counter, counting this failure, is at most 1; in every
\* other case the address is unchanged and the error is propagated; without
\* a fallback usingFallback stays false.
C32_TogglesOrPropagates ==
    [][ /\ conn.fallback = NoAddress => ~conn'.usingFallback
        /\ \A p \in Sequential :
               FailureHandled(p) =>
                   IF MayToggle(FailureOf(p))
                   THEN Toggled /\ Retried(p)
                   ELSE ~Toggled /\ Propagated(p) ]_vars

\* C32, amended: as above, but in the other cases the error is propagated
\* unless it is the 'socket not ready' answer to a request, after which the
\* connection is reset and the call retried on the unchanged address.
C32_TogglesExactlyWhen ==
    [][ /\ conn.fallback = NoAddress => ~conn'.usingFallback
        /\ \A p \in Sequential :
               FailureHandled(p) =>
                   IF MayToggle(FailureOf(p))
                   THEN Toggled /\ Retried(p)
                   ELSE /\ ~Toggled
                        /\ IF IsNotReady(FailureOf(p))
                           THEN Retried(p)
                           ELSE Propagated(p) ]_vars

\* The first connectivity failure of a call, on the primary, with a
\* fallback configured: the address is toggled and the call is about to open
\* the fallback.
C32_Witness ==
    \E p \in Sequential :
        /\ proc[p].op = "call" /\ proc[p].pc = "wantOpen"
        /\ Len(proc[p].log) >= 1
        /\ ConnectivityFailure(Back(p, 0), "primary")
        /\ conn.usingFallback
        /\ conn.client = NoClient
        /\ conn.failedAttemptsAtConnecting = 1

\* C33: whenever a call() issued on a connection that no other call is
\* using completes, by returning or by raising, failedAttemptsAtConnecting
\* is 0: the counter carries nothing over to the next call.
C33_CounterResetOnCompletion ==
    \A p \in Sequential :
        (proc[p].op = "call" /\ proc[p].pc = "done")
        => conn.failedAttemptsAtConnecting = 0

\* A call that counted two connectivity failures, one per address, and
\* raised.
C33_Witness ==
    \E p \in Sequential :
        /\ proc[p].op = "call" /\ Raised(p)
        /\ Len(proc[p].log) >= 2
        /\ ConnectivityFailure(Back(p, 1), "primary")
        /\ ConnectivityFailure(Back(p, 0), "fallback")
        /\ conn.failedAttemptsAtConnecting = 0

\* A step of call() between two of its awaits: the only place where the
\* counter is written.
InsideCall(p) == proc[p].op = "call" /\ proc[p].pc \in {"inOpen", "request"}

\* C34: usingFallback changes only through a toggle of the fallback policy:
\* close(), open(), a successful request and a propagated error leave it
\* unchanged, and close() and open() leave the counter unchanged too; the
\* client in place is always one for the address in use, so after a toggle
\* every later call starts on the fallback until the policy toggles back.
C34_OnlyPolicyToggles ==
    [][ /\ Toggled
               => \E p \in Sequential :
                      FailureHandled(p) /\ MayToggle(FailureOf(p))
        /\ conn'.failedAttemptsAtConnecting # conn.failedAttemptsAtConnecting
               => \E p \in Sequential : InsideCall(p)
        /\ conn'.client # NoClient
               => conn'.client = IF conn'.usingFallback THEN conn'.fallback
                                  ELSE "primary" ]_vars

\* A call made after the toggle: its only attempt is a request that went to
\* the fallback.
C34_Witness ==
    \E p \in Sequential :
        /\ proc[p].op = "call" /\ Returned(p)
        /\ proc[p].log = <<Attempt("request", "fallback", "ok")>>
        /\ conn.usingFallback

\* C35: under every interleaving of concurrent call()s and close() on one
\* connection, a request is sent only on a client that is in place: never on
\* a closed (null) client; a call that finds the connection closed opens it
\* again before it sends.
C35_RequestOnOpenClient ==
    \A p \in Callers :
        (proc[p].op = "call" /\ proc[p].pc = "request")
        => proc[p].pend.address # NoClient

\* A request is in flight on the client it was sent on while another caller
\* has closed the connection.
C35_Witness ==
    \E p, q \in Callers :
        /\ p # q
        /\ proc[p].op = "call" /\ proc[p].pc = "request"
        /\ proc[p].pend.address = "primary"
        /\ proc[q].op = "disconnect" /\ Returned(q)
        /\ conn.client = NoClient

(***************************************************************************)
(* Claims on the other components                                          *)
(***************************************************************************)

\* query() was asked for a kind and for the parsed result.
ParsedQuery == api.kind # NoKind /\ ~api.options.returnResponse

EmptyPage ==
    /\ ~api.reply.error
    /\ api.reply.limits # NoLimits
    /\ api.reply.limits.start >= api.reply.limits.total

\* C36: query() for a list kind returns an empty collection, and raises
\* nothing, whenever the reply carries limits with start >= total; a reply
\* that carries an error object raises an error instead of returning data.
C36_EmptyPageIsEmptyList ==
    ParsedQuery =>
        /\ EmptyPage => api.answer = Answer("ok", EmptyArray)
        /\ api.reply.error => api.answer.outcome = "error"

\* The reply of a library without movies: limits 0 of 0 and no 'movies' key.
C36_Witness ==
    /\ ParsedQuery
    /\ api.reply = [error |-> FALSE, limits |-> [start |-> 0, total |-> 0],
                    plural |-> Undefined, details |-> Undefined]
    /\ api.answer = Answer("ok", EmptyArray)

\* C37: when play( A ) and then play( B ), or play( A ) and then stop(), are
\* invoked back-to-back while an item with a status is current, then once
\* all the stops they wait for have completed the current item is the one
\* asked for last (B, or null), whatever the order the stops complete in.
C37_LastRequestWins ==
    (legacy.stopping = <<>> /\ Len(legacy.requested) >= 2)
    => legacy.currentItem = legacy.requested[Len(legacy.requested)]

\* The positions at or after skip whose record passes, in table order.
PassingFrom(table, skip) ==
    SelectSeq([i \in 1..Len(table) |-> i], LAMBDA i : i > skip /\ table[i])

\* What list() is to return: the first take of them, each with the position
\* it has in the whole ordered table, counted from 0.
Expected(table, skip, take) ==
    LET all == PassingFrom(table, skip)
    IN  [i \in 1..Min(take, Len(all)) |-> Record(all[i], all[i] - 1)]

Modifying == {"post", "put", "patch", "del", "delete"}

\* C39: every route registered with a verb that modifies data (post, put,
\* patch, del/delete) has auth scope 'write' unless @AuthScope set another
\* one, and only the other verbs get 'read': a caller authorized for 'read'
\* alone reaches no create, update or delete handler.
C39_ModifyingRoutesNeedWrite ==
    \A i \in DOMAIN controller.registered :
        LET r == controller.registered[i]
        IN  r.propertyKey \notin controller.overridden
            => (r.method \in Modifying => r.authScope = "write")

\* C40: in the router that router() builds, every route declared with
\* appendLast = true is registered after every route of the controller
\* declared without it, whatever the order of the declarations.
C40_AppendLastComesLast ==
    \A i, j \in DOMAIN controller.registered :
        (/\ controller.registered[i].appendLast
         /\ ~controller.registered[j].appendLast)
        => j < i

====
